---- MODULE Spec2Model ----
(***************************************************************************)
(* Wire-level data model of the fast bridge: src/src/lib.rs.               *)
(*                                                                         *)
(*  - the Borsh binary codec of TransferMessage (derived BorshSerialize,   *)
(*    hand-written BorshDeserialize with a lenient trailing field),        *)
(*  - the hex text codec of EthAddress (serde Deserialize / Serialize and  *)
(*    get_eth_address),                                                    *)
(*  - the NEP-297 event envelope written by Event::emit.                   *)
(*                                                                         *)
(* Bytes are integers 0..255, byte strings are sequences of bytes, text is *)
(* a sequence of one-character strings.  Integer fields keep their wire    *)
(* width (8 and 16 bytes); the sampled values stay below 2^31, the range   *)
(* of TLC's integers.                                                      *)
(***************************************************************************)
EXTENDS Integers, Sequences, FiniteSets, TLC

VARIABLES
    pc,        \* position of the codec harness
    msg,       \* the TransferMessage under test
    data,      \* the byte buffer handed to the decoder
    stage,     \* how `data` was obtained from try_to_vec(msg)
    res,       \* result of <TransferMessage as BorshDeserialize>::deserialize
    slice,     \* result of TransferMessage::try_from_slice
    out,       \* try_to_vec of the decoded message
    slice2,    \* try_from_slice(out)
    addr,      \* the 20-byte value of the address harness
    hex,       \* the text EthAddress::serialize produced for addr
    text,      \* the text handed to the address parsers
    shape,     \* how `text` was obtained from `hex`
    parsed,    \* outcome of the address parser that ran last
    parser,    \* which parser ran last
    log,       \* the host's log sink
    log0,      \* the log as it was before the first emit
    emitted    \* the events passed to emit, in call order

codecVars == <<pc, msg, data, stage, res, slice, out, slice2>>
addrVars  == <<addr, hex, text, shape, parsed, parser>>
eventVars == <<log, log0, emitted>>
vars      == <<codecVars, addrVars, eventVars>>

----------------------------------------------------------------------------
(* Bounds of the model *)

\* longest run of bytes placed after a failing aurora_sender flag
MaxTail == 3
\* most bytes by which an address text is made shorter or longer than 20
MaxResize == 2
\* most emit calls in one behaviour
MaxEmits == 2

----------------------------------------------------------------------------
(* Borsh primitives, as used by the derived and hand-written impls *)

ADDRESS_LEN == 20
U64_LEN == 8
U128_LEN == 16
U32_LEN == 4

Drop(s, n) == SubSeq(s, n + 1, Len(s))
Take(s, n) == SubSeq(s, 1, n)

RECURSIVE to_le_bytes(_, _)
to_le_bytes(n, w) ==
    IF w = 0 THEN <<>> ELSE <<n % 256>> \o to_le_bytes(n \div 256, w - 1)

RECURSIVE from_le_bytes(_)
from_le_bytes(bs) ==
    IF bs = <<>> THEN 0 ELSE bs[1] + 256 * from_le_bytes(Tail(bs))

\* `?` and let-bindings of the source: e is evaluated once and handed to F
Bind(e, F(_)) == CHOOSE y \in {F(x) : x \in {e}} : TRUE

Ok(v, rest) == [ok |-> TRUE, val |-> v, rest |-> rest]
Err(kind, rest) == [ok |-> FALSE, err |-> kind, rest |-> rest]

ERROR_UNEXPECTED_LENGTH_OF_INPUT == "Unexpected length of input"
ERROR_NOT_ALL_BYTES_READ == "Not all bytes read"
ERROR_INVALID_OPTION == "Invalid Option representation"
ERROR_INVALID_ACCOUNT_ID == "invalid account id"

\* Option<T>: None is the empty sequence, Some(v) the one-element sequence
None == <<>>
Some(v) == <<v>>

read_int(buf, w) ==
    IF Len(buf) < w THEN Err(ERROR_UNEXPECTED_LENGTH_OF_INPUT, buf)
    ELSE Ok(from_le_bytes(Take(buf, w)), Drop(buf, w))

read_u64(buf) == read_int(buf, U64_LEN)
read_u128(buf) == read_int(buf, U128_LEN)

\* near_sdk::AccountId: 2..64 bytes of a-z 0-9 with single - _ . separators inside
IsAlnum(b) == (b >= 97 /\ b <= 122) \/ (b >= 48 /\ b <= 57)
IsSeparator(b) == b \in {45, 46, 95}
is_valid_account_id(s) ==
    /\ Len(s) >= 2 /\ Len(s) <= 64
    /\ \A i \in 1..Len(s) : IsAlnum(s[i]) \/ IsSeparator(s[i])
    /\ ~IsSeparator(s[1]) /\ ~IsSeparator(s[Len(s)])
    /\ \A i \in 1..(Len(s) - 1) : ~(IsSeparator(s[i]) /\ IsSeparator(s[i + 1]))

write_account_id(s) == to_le_bytes(Len(s), U32_LEN) \o s

read_account_id(buf) ==
    Bind(read_int(buf, U32_LEN), LAMBDA n :
    IF ~n.ok THEN n
    ELSE IF Len(n.rest) < n.val THEN Err(ERROR_UNEXPECTED_LENGTH_OF_INPUT, n.rest)
    ELSE IF ~is_valid_account_id(Take(n.rest, n.val))
         THEN Err(ERROR_INVALID_ACCOUNT_ID, Drop(n.rest, n.val))
    ELSE Ok(Take(n.rest, n.val), Drop(n.rest, n.val)))

\* EthAddress([u8; 20]): the 20 bytes as they are; a failed read consumes nothing
write_eth_address(a) == a

\* (variant: the bytes taken in the opposite order)
read_eth_address_reversed(buf) ==
    IF Len(buf) < ADDRESS_LEN THEN Err(ERROR_UNEXPECTED_LENGTH_OF_INPUT, buf)
    ELSE Ok([i \in 1..ADDRESS_LEN |-> buf[ADDRESS_LEN + 1 - i]], Drop(buf, ADDRESS_LEN))

read_eth_address(buf) ==
    IF Len(buf) < ADDRESS_LEN THEN Err(ERROR_UNEXPECTED_LENGTH_OF_INPUT, buf)
    ELSE Ok(Take(buf, ADDRESS_LEN), Drop(buf, ADDRESS_LEN))

\* Option<T>: one flag byte, 0 = None, 1 = Some followed by the value
write_option_u64(o) ==
    IF o = None THEN <<0>> ELSE <<1>> \o to_le_bytes(o[1], U64_LEN)

\* (variant: None written as no byte at all)
write_option_address_no_flag(o) ==
    IF o = None THEN <<>> ELSE <<1>> \o write_eth_address(o[1])

write_option_address(o) ==
    IF o = None THEN <<0>> ELSE <<1>> \o write_eth_address(o[1])

read_option_u64(buf) ==
    IF buf = <<>> THEN Err(ERROR_UNEXPECTED_LENGTH_OF_INPUT, buf)
    ELSE IF buf[1] = 0 THEN Ok(None, Tail(buf))
    ELSE IF buf[1] = 1 THEN
        Bind(read_u64(Tail(buf)), LAMBDA v :
            IF v.ok THEN Ok(Some(v.val), v.rest) ELSE v)
    ELSE Err(ERROR_INVALID_OPTION, Tail(buf))

read_option_address(buf) ==
    IF buf = <<>> THEN Err(ERROR_UNEXPECTED_LENGTH_OF_INPUT, buf)
    ELSE IF buf[1] = 0 THEN Ok(None, Tail(buf))
    ELSE IF buf[1] = 1 THEN
        Bind(read_eth_address(Tail(buf)), LAMBDA v :
            IF v.ok THEN Ok(Some(v.val), v.rest) ELSE v)
    ELSE Err(ERROR_INVALID_OPTION, Tail(buf))

----------------------------------------------------------------------------
(* Domain records *)

write_TransferDataEthereum(t) ==
    write_account_id(t.token_near) \o write_eth_address(t.token_eth)
        \o to_le_bytes(t.amount, U128_LEN)

read_TransferDataEthereum(buf) ==
    Bind(read_account_id(buf), LAMBDA a : IF ~a.ok THEN a ELSE
    Bind(read_eth_address(a.rest), LAMBDA b : IF ~b.ok THEN b ELSE
    Bind(read_u128(b.rest), LAMBDA c : IF ~c.ok THEN c ELSE
    Ok([token_near |-> a.val, token_eth |-> b.val, amount |-> c.val], c.rest))))

write_TransferDataNear(t) ==
    write_account_id(t.token) \o to_le_bytes(t.amount, U128_LEN)

read_TransferDataNear(buf) ==
    Bind(read_account_id(buf), LAMBDA a : IF ~a.ok THEN a ELSE
    Bind(read_u128(a.rest), LAMBDA c : IF ~c.ok THEN c ELSE
    Ok([token |-> a.val, amount |-> c.val], c.rest)))

\* (variant: the two optional fields written in the opposite order)
try_to_vec_aurora_first(m) ==
    to_le_bytes(m.valid_till, U64_LEN)
        \o write_TransferDataEthereum(m.transfer)
        \o write_TransferDataNear(m.fee)
        \o write_eth_address(m.recipient)
        \o write_option_address(m.aurora_sender)
        \o write_option_u64(m.valid_till_block_height)

\* derived BorshSerialize of TransferMessage: the fields in declaration order
try_to_vec(m) ==
    to_le_bytes(m.valid_till, U64_LEN)
        \o write_TransferDataEthereum(m.transfer)
        \o write_TransferDataNear(m.fee)
        \o write_eth_address(m.recipient)
        \o write_option_u64(m.valid_till_block_height)
        \o write_option_address(m.aurora_sender)

TransferMessage(vt, tr, fee, rcp, vtbh, au) ==
    [valid_till |-> vt, transfer |-> tr, fee |-> fee, recipient |-> rcp,
     valid_till_block_height |-> vtbh, aurora_sender |-> au]

\* (variant: valid_till_block_height read with .unwrap_or(None) as well)
deserialize_lenient_height(buf) ==
    Bind(read_u64(buf), LAMBDA f1 : IF ~f1.ok THEN f1 ELSE
    Bind(read_TransferDataEthereum(f1.rest), LAMBDA f2 : IF ~f2.ok THEN f2 ELSE
    Bind(read_TransferDataNear(f2.rest), LAMBDA f3 : IF ~f3.ok THEN f3 ELSE
    Bind(read_eth_address(f3.rest), LAMBDA f4 : IF ~f4.ok THEN f4 ELSE
    Bind(read_option_u64(f4.rest), LAMBDA f5 :
    Ok(TransferMessage(f1.val, f2.val, f3.val, f4.val,
                       IF f5.ok THEN f5.val ELSE None, None), f5.rest))))))

\* the fields read with `?`: valid_till .. valid_till_block_height
deserialize_strict_fields(buf) ==
    Bind(read_u64(buf), LAMBDA f1 : IF ~f1.ok THEN f1 ELSE
    Bind(read_TransferDataEthereum(f1.rest), LAMBDA f2 : IF ~f2.ok THEN f2 ELSE
    Bind(read_TransferDataNear(f2.rest), LAMBDA f3 : IF ~f3.ok THEN f3 ELSE
    Bind(read_eth_address(f3.rest), LAMBDA f4 : IF ~f4.ok THEN f4 ELSE
    Bind(read_option_u64(f4.rest), LAMBDA f5 : IF ~f5.ok THEN f5 ELSE
    Ok(TransferMessage(f1.val, f2.val, f3.val, f4.val, f5.val, None), f5.rest))))))

\* (variant: aurora_sender read with `?` like the fields before it)
deserialize_all_strict(buf) ==
    Bind(deserialize_strict_fields(buf), LAMBDA h : IF ~h.ok THEN h ELSE
    Bind(read_option_address(h.rest), LAMBDA f6 : IF ~f6.ok THEN f6 ELSE
    Ok([h.val EXCEPT !.aurora_sender = f6.val], f6.rest)))

\* (variant: only an exhausted stream resolves to None, other errors propagate)
deserialize_exhausted_only(buf) ==
    Bind(deserialize_strict_fields(buf), LAMBDA h : IF ~h.ok THEN h ELSE
    Bind(read_option_address(h.rest), LAMBDA f6 :
    IF ~f6.ok /\ h.rest # <<>> THEN f6
    ELSE Ok([h.val EXCEPT !.aurora_sender = IF f6.ok THEN f6.val ELSE None], f6.rest)))

\* impl BorshDeserialize for TransferMessage: aurora_sender is read with
\* .unwrap_or(None); what the failed read consumed stays consumed
deserialize(buf) ==
    Bind(deserialize_strict_fields(buf), LAMBDA h : IF ~h.ok THEN h ELSE
    Bind(read_option_address(h.rest), LAMBDA f6 :
    Ok([h.val EXCEPT !.aurora_sender = IF f6.ok THEN f6.val ELSE None], f6.rest)))

\* BorshDeserialize::try_from_slice: deserialize, then every byte must be read
try_from_slice(v) ==
    Bind(deserialize(v), LAMBDA r :
    IF ~r.ok THEN r
    ELSE IF r.rest # <<>> THEN Err(ERROR_NOT_ALL_BYTES_READ, r.rest)
    ELSE r)

----------------------------------------------------------------------------
(* The codec harness: encode a message, optionally cut or alter the bytes *)
(* the way an older producer or a corruption would, decode, re-encode     *)

\* "token.near", "alice.near"
TOKEN_NEAR == <<116, 111, 107, 101, 110, 46, 110, 101, 97, 114>>
ALICE_NEAR == <<97, 108, 105, 99, 101, 46, 110, 101, 97, 114>>
\* 71C7656EC7ab88b098defB751B7401B5f6d8976F
ETH_ADDRESS == <<113, 199, 101, 110, 199, 171, 136, 176, 152, 222, 251, 117, 27, 116, 1, 181, 246, 216, 151, 111>>
ZERO_ADDRESS == [i \in 1..ADDRESS_LEN |-> 0]

U64Samples == {0, 258}
U128Samples == {100, 65537}
AccountIds == {TOKEN_NEAR, ALICE_NEAR}
Addresses == {ETH_ADDRESS, ZERO_ADDRESS}

Messages ==
    { TransferMessage(vt,
                      [token_near |-> tn, token_eth |-> ETH_ADDRESS, amount |-> am],
                      [token |-> TOKEN_NEAR, amount |-> 100],
                      rcp, vtbh, au) :
        vt \in U64Samples, tn \in AccountIds, am \in U128Samples, rcp \in Addresses,
        vtbh \in {None} \cup {Some(v) : v \in U64Samples},
        au \in {None} \cup {Some(a) : a \in Addresses} }

NoResult == [ok |-> FALSE, err |-> "not run", rest |-> <<>>]

\* offsets of the recipient and of the two optional fields in try_to_vec(m)
RecipientOffset(m) ==
    U64_LEN + Len(write_TransferDataEthereum(m.transfer))
        + Len(write_TransferDataNear(m.fee))
HeightOffset(m) == RecipientOffset(m) + ADDRESS_LEN
AuroraOffset(m) == HeightOffset(m) + Len(write_option_u64(m.valid_till_block_height))

\* bytes on which reading Option<EthAddress> fails: a flag that is neither 0
\* nor 1, or the flag 1 with fewer than 20 bytes behind it
CorruptBytes == {0, 1, 255}
FailingTails ==
    { <<f>> \o [i \in 1..k |-> b] :
        f \in {1, 2, 255}, k \in 0..MaxTail, b \in {0, 7} }

CodecInit ==
    /\ pc = "start"
    /\ msg \in Messages
    /\ data = <<>>
    /\ stage = "none"
    /\ res = NoResult
    /\ slice = NoResult
    /\ out = <<>>
    /\ slice2 = NoResult

Encode ==
    /\ pc = "start"
    /\ data' = try_to_vec(msg)
    /\ stage' = "v2"
    /\ pc' = "bytes"
    /\ UNCHANGED <<msg, res, slice, out, slice2, addrVars, eventVars>>

\* an older producer that did not know aurora_sender (encode.pop() in the v1 test)
PopAuroraSender ==
    /\ pc = "bytes" /\ stage = "v2"
    /\ data' = Take(data, AuroraOffset(msg))
    /\ stage' = "v1"
    /\ UNCHANGED <<pc, msg, res, slice, out, slice2, addrVars, eventVars>>

\* a producer that knew neither optional field: the bytes end after recipient
CutOptionalFields ==
    /\ pc = "bytes" /\ stage = "v2"
    /\ data' = Take(data, HeightOffset(msg))
    /\ stage' = "v0"
    /\ UNCHANGED <<pc, msg, res, slice, out, slice2, addrVars, eventVars>>

\* one byte inside the recipient field is changed
CorruptRecipient ==
    /\ pc = "bytes" /\ stage = "v2"
    /\ \E i \in 1..ADDRESS_LEN, b \in CorruptBytes :
        /\ data[RecipientOffset(msg) + i] # b
        /\ data' = [data EXCEPT ![RecipientOffset(msg) + i] = b]
    /\ stage' = "corrupt"
    /\ UNCHANGED <<pc, msg, res, slice, out, slice2, addrVars, eventVars>>

\* the aurora_sender encoding is replaced by bytes that do not read as one
ReplaceAuroraSender ==
    /\ pc = "bytes" /\ stage = "v2"
    /\ \E t \in FailingTails : data' = Take(data, AuroraOffset(msg)) \o t
    /\ stage' = "tail"
    /\ UNCHANGED <<pc, msg, res, slice, out, slice2, addrVars, eventVars>>

Decode ==
    /\ pc = "bytes"
    /\ res' = deserialize(data)
    /\ slice' = try_from_slice(data)
    /\ pc' = "decoded"
    /\ UNCHANGED <<msg, data, stage, out, slice2, addrVars, eventVars>>

ReEncode ==
    /\ pc = "decoded" /\ slice.ok
    /\ out' = try_to_vec(slice.val)
    /\ pc' = "reencoded"
    /\ UNCHANGED <<msg, data, stage, res, slice, slice2, addrVars, eventVars>>

DecodeAgain ==
    /\ pc = "reencoded"
    /\ slice2' = try_from_slice(out)
    /\ pc' = "done"
    /\ UNCHANGED <<msg, data, stage, res, slice, out, addrVars, eventVars>>

Pristine ==
    [recased |-> "none", resized |-> 0, garbled |-> FALSE, odd |-> FALSE,
     prefixed |-> FALSE]
NotParsed == [kind |-> "none"]

AddrIdle ==
    /\ addr = ZERO_ADDRESS /\ hex = <<>> /\ text = <<>> /\ shape = Pristine
    /\ parsed = NotParsed /\ parser = "none"
EventIdle == log = <<>> /\ log0 = <<>> /\ emitted = <<>>

Init == CodecInit /\ AddrIdle /\ EventIdle

Next ==
    \/ Encode
    \/ PopAuroraSender
    \/ CutOptionalFields
    \/ CorruptRecipient
    \/ ReplaceAuroraSender
    \/ Decode
    \/ ReEncode
    \/ DecodeAgain

Spec == Init /\ [][Next]_vars

----------------------------------------------------------------------------
(* Properties of the binary codec *)

Decoded == pc \in {"decoded", "reencoded", "done"}
RecipientBytes == SubSeq(data, RecipientOffset(msg) + 1, RecipientOffset(msg) + ADDRESS_LEN)

\* C1: decoding the bytes produced by encoding m succeeds and yields a value
\* equal to m in every field, whichever optional fields are present.
C1_RoundTrip ==
    (Decoded /\ stage = "v2") => (slice = Ok(msg, <<>>) /\ res = Ok(msg, <<>>))

C1_Witness ==
    /\ Decoded /\ stage = "v2" /\ slice.ok
    /\ msg.valid_till_block_height = None /\ msg.aurora_sender # None

\* C2: with the trailing aurora_sender encoding removed from encode(m), decode
\* succeeds and yields m with aurora_sender absent, every other field unchanged.
C2_BackwardCompatible ==
    (Decoded /\ stage = "v1") => slice = Ok([msg EXCEPT !.aurora_sender = None], <<>>)

C2_Witness ==
    /\ Decoded /\ stage = "v1" /\ msg.aurora_sender # None
    /\ slice.ok /\ slice.val.aurora_sender = None

\* C3 as stated: with both trailing optional fields removed, so that the bytes
\* end right after recipient, decode succeeds with both fields absent.
C3_DecodesWithoutOptionalFields ==
    (Decoded /\ stage = "v0") =>
        /\ slice.ok
        /\ slice.val = [msg EXCEPT !.valid_till_block_height = None,
                                   !.aurora_sender = None]

\* C3 amended: when the bytes end right after recipient, decode fails: the
\* error of reading valid_till_block_height from the exhausted stream is
\* propagated and no message is produced.
C3_FailsWithoutOptionalFields ==
    (Decoded /\ stage = "v0") =>
        /\ ~res.ok /\ ~slice.ok
        /\ res.err = ERROR_UNEXPECTED_LENGTH_OF_INPUT
        /\ res.rest = <<>>

C3_Witness == Decoded /\ stage = "v0" /\ Len(data) = HeightOffset(msg) /\ ~slice.ok

\* C4 as stated: changing one byte inside the recipient field of encode(m)
\* makes decode fail.
C4_CorruptRecipientRejected ==
    (Decoded /\ stage = "corrupt") => (~slice.ok /\ ~res.ok)

\* C4 amended: changing one byte inside the recipient field of encode(m) is not
\* detected: decode succeeds and yields m with recipient holding the changed
\* 20 bytes, every other field unchanged.
C4_CorruptRecipientAccepted ==
    (Decoded /\ stage = "corrupt") =>
        /\ slice.ok /\ res = slice
        /\ slice.val = [msg EXCEPT !.recipient = RecipientBytes]
        /\ slice.val.recipient # msg.recipient

C4_Witness ==
    Decoded /\ stage = "corrupt" /\ slice.ok /\ RecipientBytes # msg.recipient

C10_ReEncodeUpgrades ==
    (stage = "v1" /\ msg.aurora_sender = None) =>
        /\ Decoded => slice.ok
        /\ pc \in {"reencoded", "done"} => (out = data \o <<0>> /\ out # data)
        /\ pc = "done" => slice2 = slice

C10_Witness ==
    /\ pc = "done" /\ stage = "v1" /\ msg.aurora_sender = None
    /\ Len(out) = Len(data) + 1

----------------------------------------------------------------------------
(* EthAddress text codec: hex::encode / hex::decode, serde impls, get_eth_address *)

LowerHex == <<"0", "1", "2", "3", "4", "5", "6", "7", "8", "9",
              "a", "b", "c", "d", "e", "f">>
UpperHex == <<"0", "1", "2", "3", "4", "5", "6", "7", "8", "9",
              "A", "B", "C", "D", "E", "F">>

\* hex::encode: two lowercase digits per byte, high nibble first
RECURSIVE hex_encode_upper(_)
hex_encode_upper(bytes) ==
    IF bytes = <<>> THEN <<>>
    ELSE <<UpperHex[(bytes[1] \div 16) + 1], UpperHex[(bytes[1] % 16) + 1]>>
            \o hex_encode_upper(Tail(bytes))

RECURSIVE hex_encode(_)
hex_encode(bytes) ==
    IF bytes = <<>> THEN <<>>
    ELSE <<LowerHex[(bytes[1] \div 16) + 1], LowerHex[(bytes[1] % 16) + 1]>>
            \o hex_encode(Tail(bytes))

\* value of one hex digit of either case, -1 for any other character
hex_val(c) ==
    IF \E i \in 1..16 : LowerHex[i] = c THEN (CHOOSE i \in 1..16 : LowerHex[i] = c) - 1
    ELSE IF \E i \in 1..16 : UpperHex[i] = c THEN (CHOOSE i \in 1..16 : UpperHex[i] = c) - 1
    ELSE -1

\* hex::decode / Vec::from_hex: odd length is rejected first, then every
\* character must be a hex digit
hex_decode(s) ==
    IF Len(s) % 2 # 0 THEN [ok |-> FALSE, err |-> "OddLength"]
    ELSE IF \E i \in 1..Len(s) : hex_val(s[i]) < 0
         THEN [ok |-> FALSE, err |-> "InvalidHexCharacter"]
    ELSE [ok |-> TRUE,
          val |-> [k \in 1..(Len(s) \div 2) |->
                      16 * hex_val(s[2 * k - 1]) + hex_val(s[2 * k])]]

starts_with_0x(s) == Len(s) >= 2 /\ s[1] = "0" /\ s[2] = "x"

UNWRAP_ON_ERR == "called Result::unwrap() on an Err value"
Parsed(a) == [kind |-> "ok", val |-> a]
Failed(e) == [kind |-> "err", err |-> e]
Panicked(m) == [kind |-> "panic", msg |-> m]

\* impl Serialize for EthAddress
EthAddress_serialize(a) == hex_encode(a)

\* impl Deserialize for EthAddress: a hex error is returned, a wrong length
\* panics in try_into().unwrap()
EthAddress_deserialize(s) ==
    Bind(hex_decode(IF starts_with_0x(s) THEN Drop(s, 2) ELSE s), LAMBDA result :
    IF ~result.ok THEN Failed(result.err)
    ELSE IF Len(result.val) # ADDRESS_LEN
         THEN Panicked(UNWRAP_ON_ERR)
    ELSE Parsed(result.val))

\* get_eth_address: no prefix handling, both failures panic
get_eth_address(address) ==
    Bind(hex_decode(address), LAMBDA d :
    IF ~d.ok THEN Panicked("address should be a valid hex string.")
    ELSE IF Len(d.val) # ADDRESS_LEN THEN Panicked("address should be 20 bytes long")
    ELSE Parsed(d.val))

----------------------------------------------------------------------------
(* The address harness: serialize a value, vary the text, parse it *)

FF_ADDRESS == [i \in 1..ADDRESS_LEN |-> 255]
MIXED_ADDRESS == [i \in 1..ADDRESS_LEN |-> (i * 27 + 5) % 256]
AddressSamples == {ETH_ADDRESS, ZERO_ADDRESS, FF_ADDRESS, MIXED_ADDRESS}

to_ascii_uppercase(c) ==
    IF \E i \in 11..16 : LowerHex[i] = c
    THEN UpperHex[CHOOSE i \in 11..16 : LowerHex[i] = c]
    ELSE c

CasePatterns == {"upper", "even", "odd"}
Recased(s, p) ==
    [i \in 1..Len(s) |->
        IF p = "upper" \/ (p = "even" /\ i % 2 = 0) \/ (p = "odd" /\ i % 2 = 1)
        THEN to_ascii_uppercase(s[i]) ELSE s[i]]

CodecIdle ==
    /\ pc = "idle"
    /\ msg = CHOOSE m \in Messages : TRUE
    /\ data = <<>> /\ stage = "none" /\ res = NoResult /\ slice = NoResult
    /\ out = <<>> /\ slice2 = NoResult

AddressInit ==
    /\ CodecIdle /\ EventIdle
    /\ addr \in AddressSamples
    /\ hex = <<>> /\ text = <<>> /\ shape = Pristine
    /\ parsed = NotParsed /\ parser = "none"

Editable == hex # <<>> /\ parsed = NotParsed /\ ~shape.prefixed

Serialize ==
    /\ hex = <<>>
    /\ hex' = EthAddress_serialize(addr)
    /\ text' = hex'
    /\ UNCHANGED <<addr, shape, parsed, parser, codecVars, eventVars>>

Recase ==
    /\ Editable /\ shape = Pristine
    /\ \E p \in CasePatterns :
        /\ text' = Recased(text, p)
        /\ shape' = [shape EXCEPT !.recased = p]
    /\ UNCHANGED <<addr, hex, parsed, parser, codecVars, eventVars>>

\* the text of fewer than 20 bytes
Shorten ==
    /\ Editable /\ shape.resized = 0 /\ ~shape.odd /\ ~shape.garbled
    /\ \E n \in 1..MaxResize :
        /\ text' = Take(text, Len(text) - 2 * n)
        /\ shape' = [shape EXCEPT !.resized = -n]
    /\ UNCHANGED <<addr, hex, parsed, parser, codecVars, eventVars>>

\* the text of more than 20 bytes
Lengthen ==
    /\ Editable /\ shape.resized = 0 /\ ~shape.odd /\ ~shape.garbled
    /\ \E n \in 1..MaxResize :
        /\ text' = text \o [i \in 1..(2 * n) |-> "a"]
        /\ shape' = [shape EXCEPT !.resized = n]
    /\ UNCHANGED <<addr, hex, parsed, parser, codecVars, eventVars>>

\* one character replaced by one that is no hex digit
Garble ==
    /\ Editable /\ ~shape.garbled /\ ~shape.odd
    /\ \E i \in {1, Len(text)} :
        /\ i >= 1
        /\ text' = [text EXCEPT ![i] = "g"]
    /\ shape' = [shape EXCEPT !.garbled = TRUE]
    /\ UNCHANGED <<addr, hex, parsed, parser, codecVars, eventVars>>

\* the last character dropped: an odd number of digits
DropDigit ==
    /\ Editable /\ ~shape.odd /\ Len(text) >= 1
    /\ text' = Take(text, Len(text) - 1)
    /\ shape' = [shape EXCEPT !.odd = TRUE]
    /\ UNCHANGED <<addr, hex, parsed, parser, codecVars, eventVars>>

AddPrefix ==
    /\ Editable
    /\ text' = <<"0", "x">> \o text
    /\ shape' = [shape EXCEPT !.prefixed = TRUE]
    /\ UNCHANGED <<addr, hex, parsed, parser, codecVars, eventVars>>

DeserializeAddress ==
    /\ hex # <<>> /\ parsed = NotParsed
    /\ parsed' = EthAddress_deserialize(text)
    /\ parser' = "deserialize"
    /\ UNCHANGED <<addr, hex, text, shape, codecVars, eventVars>>

GetEthAddress ==
    /\ hex # <<>> /\ parsed = NotParsed
    /\ parsed' = get_eth_address(text)
    /\ parser' = "get_eth_address"
    /\ UNCHANGED <<addr, hex, text, shape, codecVars, eventVars>>

AddressNext ==
    \/ Serialize
    \/ Recase
    \/ Shorten
    \/ Lengthen
    \/ Garble
    \/ DropDigit
    \/ AddPrefix
    \/ DeserializeAddress
    \/ GetEthAddress

AddressSpec == AddressInit /\ [][AddressNext]_vars

----------------------------------------------------------------------------
(* Properties of the address codec *)

ValidHexDigits == ~shape.garbled /\ ~shape.odd
\* the text is hex that the parser at hand decodes to a byte count other than 20
WrongLength ==
    /\ ValidHexDigits /\ shape.resized # 0
    /\ parser = "deserialize" \/ ~shape.prefixed

\* C6 as stated: text whose hex decodes to a byte count other than 20 never
\* yields an EthAddress, and the failure is reported as a returned
\* InvalidLength error value.
C6_InvalidLengthReturned ==
    (parsed # NotParsed /\ WrongLength) =>
        (parsed.kind = "err" /\ parsed.err = "InvalidLength")

\* C7 as stated: to_hex(b) is 40 lowercase hex characters without prefix, and
\* that text, with or without a leading 0x and in any case variant, parses to
\* exactly b through EthAddress deserialization and through get_eth_address.
IsLowerHexDigit(c) == \E i \in 1..16 : LowerHex[i] = c
HexIsCanonical ==
    hex # <<>> =>
        /\ Len(hex) = 2 * ADDRESS_LEN
        /\ \A i \in 1..Len(hex) : IsLowerHexDigit(hex[i])
        /\ ~starts_with_0x(hex)
SameDigits == ValidHexDigits /\ shape.resized = 0

C7_TextRoundTrip ==
    /\ HexIsCanonical
    /\ (parsed # NotParsed /\ SameDigits) => parsed = Parsed(addr)

\* C7 amended: to_hex(b) is 40 lowercase hex characters without prefix; that
\* text and every case variant of it parse to exactly b through EthAddress
\* deserialization and through get_eth_address; with a leading 0x it parses to
\* b through EthAddress deserialization only, get_eth_address rejects it.
C7_TextRoundTripPrefixSerdeOnly ==
    /\ HexIsCanonical
    /\ (parsed # NotParsed /\ SameDigits) =>
        IF parser = "get_eth_address" /\ shape.prefixed
        THEN parsed = Panicked("address should be a valid hex string.")
        ELSE parsed = Parsed(addr)

C7_Witness ==
    /\ parser = "deserialize" /\ SameDigits
    /\ shape.prefixed /\ shape.recased = "even" /\ text # <<"0", "x">> \o hex
    /\ parsed = Parsed(addr)

----------------------------------------------------------------------------
(* JSON values as serde_json::Value: a tagged record per kind; an object is *)
(* a function from its keys to values.  A JSON text is represented by the  *)
(* value it denotes.                                                       *)

JNull == [t |-> "null"]
JString(str) == [t |-> "string", s |-> str]
JNumber(n) == [t |-> "number", n |-> n]
JObject(fields) == [t |-> "object", o |-> fields]

\* serde_json's Value[key]: Null when the value is no object or lacks the key
Index(v, key) ==
    IF v.t = "object" /\ key \in DOMAIN v.o THEN v.o[key] ELSE JNull

STANDARD == "nep297"
VERSION == "1.0.0"
EVENT_JSON_STR == "EVENT_JSON:"

\* u128 to decimal text
RECURSIVE to_string(_)
to_string(n) ==
    IF n < 10 THEN <<LowerHex[n + 1]>>
    ELSE to_string(n \div 10) \o <<LowerHex[(n % 10) + 1]>>

U128_serialize(n) == JString(to_string(n))
AccountId_serialize(a) == JString(a)
EthAddress_to_json(a) == JString(EthAddress_serialize(a))
Option_serialize(o, F(_)) == IF o = None THEN JNull ELSE F(o[1])

TransferDataEthereum_serialize(t) ==
    JObject([token_near |-> AccountId_serialize(t.token_near),
             token_eth |-> EthAddress_to_json(t.token_eth),
             amount |-> U128_serialize(t.amount)])

TransferDataNear_serialize(t) ==
    JObject([token |-> AccountId_serialize(t.token),
             amount |-> U128_serialize(t.amount)])

TransferMessage_serialize(m) ==
    JObject([valid_till |-> JNumber(m.valid_till),
             transfer |-> TransferDataEthereum_serialize(m.transfer),
             fee |-> TransferDataNear_serialize(m.fee),
             recipient |-> EthAddress_to_json(m.recipient),
             valid_till_block_height |->
                 Option_serialize(m.valid_till_block_height, JNumber),
             aurora_sender |-> Option_serialize(m.aurora_sender, EthAddress_to_json)])

\* the variants of Event, by name
VARIANT_INIT_TRANSFER ==
    <<"F", "a", "s", "t", "B", "r", "i", "d", "g", "e", "I", "n", "i", "t",
      "T", "r", "a", "n", "s", "f", "e", "r", "E", "v", "e", "n", "t">>

VARIANT_UNLOCK ==
    <<"F", "a", "s", "t", "B", "r", "i", "d", "g", "e", "U", "n", "l", "o",
      "c", "k", "E", "v", "e", "n", "t">>

VARIANT_LP_UNLOCK ==
    <<"F", "a", "s", "t", "B", "r", "i", "d", "g", "e", "L", "p", "U", "n",
      "l", "o", "c", "k", "E", "v", "e", "n", "t">>

VARIANT_DEPOSIT ==
    <<"F", "a", "s", "t", "B", "r", "i", "d", "g", "e", "D", "e", "p", "o",
      "s", "i", "t", "E", "v", "e", "n", "t">>

VARIANT_WITHDRAW ==
    <<"F", "a", "s", "t", "B", "r", "i", "d", "g", "e", "W", "i", "t", "h",
      "d", "r", "a", "w", "E", "v", "e", "n", "t">>

Variants ==
    {VARIANT_INIT_TRANSFER, VARIANT_UNLOCK, VARIANT_LP_UNLOCK, VARIANT_DEPOSIT,
     VARIANT_WITHDRAW}

FastBridgeInitTransferEvent(nonce, sender_id, transfer_message) ==
    [variant |-> VARIANT_INIT_TRANSFER, nonce |-> nonce, sender_id |-> sender_id,
     transfer_message |-> transfer_message]
FastBridgeUnlockEvent(nonce, recipient_id, transfer_message) ==
    [variant |-> VARIANT_UNLOCK, nonce |-> nonce, recipient_id |-> recipient_id,
     transfer_message |-> transfer_message]
FastBridgeLpUnlockEvent(nonce, recipient_id, transfer_message) ==
    [variant |-> VARIANT_LP_UNLOCK, nonce |-> nonce, recipient_id |-> recipient_id,
     transfer_message |-> transfer_message]
FastBridgeDepositEvent(sender_id, token, amount) ==
    [variant |-> VARIANT_DEPOSIT, sender_id |-> sender_id, token |-> token,
     amount |-> amount]
FastBridgeWithdrawEvent(sender_id, recipient_id, token, amount) ==
    [variant |-> VARIANT_WITHDRAW, sender_id |-> sender_id,
     recipient_id |-> recipient_id, token |-> token, amount |-> amount]

UpperAlpha == <<"A", "B", "C", "D", "E", "F", "G", "H", "I", "J", "K", "L", "M",
               "N", "O", "P", "Q", "R", "S", "T", "U", "V", "W", "X", "Y", "Z">>
LowerAlpha == <<"a", "b", "c", "d", "e", "f", "g", "h", "i", "j", "k", "l", "m",
               "n", "o", "p", "q", "r", "s", "t", "u", "v", "w", "x", "y", "z">>
is_uppercase(c) == \E i \in 1..26 : UpperAlpha[i] = c
to_ascii_lowercase(c) ==
    IF is_uppercase(c) THEN LowerAlpha[CHOOSE i \in 1..26 : UpperAlpha[i] = c] ELSE c

\* (variant: serde's rename_all = "lowercase")
RECURSIVE rename_all_lowercase(_)
rename_all_lowercase(name) ==
    IF name = <<>> THEN <<>>
    ELSE rename_all_lowercase(Take(name, Len(name) - 1))
            \o <<to_ascii_lowercase(name[Len(name)])>>

\* #[serde(rename_all = "snake_case")] on a variant name: an underscore before
\* every uppercase letter but the first character, every letter lowercased
RECURSIVE rename_all_snake_case(_)
rename_all_snake_case(name) ==
    IF name = <<>> THEN <<>>
    ELSE rename_all_snake_case(Take(name, Len(name) - 1))
            \o (IF Len(name) > 1 /\ is_uppercase(name[Len(name)])
                THEN <<"_">> ELSE <<>>)
            \o <<to_ascii_lowercase(name[Len(name)])>>

\* the fields of a variant, serialized under their own names
Event_fields(e) ==
    IF e.variant = VARIANT_INIT_TRANSFER THEN
        [nonce |-> U128_serialize(e.nonce),
         sender_id |-> AccountId_serialize(e.sender_id),
         transfer_message |-> TransferMessage_serialize(e.transfer_message)]
    ELSE IF e.variant \in {VARIANT_UNLOCK, VARIANT_LP_UNLOCK} THEN
        [nonce |-> U128_serialize(e.nonce),
         recipient_id |-> AccountId_serialize(e.recipient_id),
         transfer_message |-> TransferMessage_serialize(e.transfer_message)]
    ELSE IF e.variant = VARIANT_DEPOSIT THEN
        [sender_id |-> AccountId_serialize(e.sender_id),
         token |-> AccountId_serialize(e.token),
         amount |-> U128_serialize(e.amount)]
    ELSE
        [sender_id |-> Option_serialize(e.sender_id, AccountId_serialize),
         recipient_id |-> AccountId_serialize(e.recipient_id),
         token |-> AccountId_serialize(e.token),
         amount |-> U128_serialize(e.amount)]

\* derived Serialize for Event with #[serde(tag = "event", content = "data")]
Event_serialize(e) ==
    JObject([event |-> JString(rename_all_snake_case(e.variant)),
             data |-> JObject(Event_fields(e))])

\* json!(EventMessage { standard, version, event, data })
EventMessage(standard, version, event, content) ==
    JObject([standard |-> JString(standard), version |-> JString(version),
             event |-> event, data |-> content])

\* format!("{}{}", EVENT_JSON_STR, event_json): the text before the JSON and
\* the JSON
Line(head, body) == [head |-> head, body |-> body]

\* (variant: the line is put in front of the log)
emit_event_prepend(logs, e) ==
    <<Line(EVENT_JSON_STR,
           EventMessage(STANDARD, VERSION, Index(Event_serialize(e), "event"),
                        Index(Event_serialize(e), "data")))>> \o logs

\* emit_event: the line appended to the host's log by log!
emit_event(logs, e) ==
    Bind(Event_serialize(e), LAMBDA result :
    Append(logs,
           Line(EVENT_JSON_STR,
                EventMessage(STANDARD, VERSION, Index(result, "event"),
                             Index(result, "data")))))

\* Event::emit
emit(logs, e) == emit_event(logs, e)

\* remove_prefix: the JSON after the literal prefix, None without the prefix
remove_prefix(line) ==
    IF line.head = EVENT_JSON_STR THEN Some(line.body) ELSE None

----------------------------------------------------------------------------
(* The event harness: a log, and events emitted into it one call at a time *)

SenderNear == <<115, 101, 110, 100, 101, 114, 46, 110, 101, 97, 114>>
RecipientNear == <<114, 101, 99, 105, 112, 105, 101, 110, 116, 46, 110, 101, 97, 114>>

EventMessages ==
    { TransferMessage(0,
                      [token_near |-> TOKEN_NEAR, token_eth |-> ETH_ADDRESS, amount |-> 100],
                      [token |-> TOKEN_NEAR, amount |-> 100],
                      ETH_ADDRESS, vtbh, au) :
        vtbh \in {None, Some(0)}, au \in {None, Some(ZERO_ADDRESS)} }

Events ==
    { FastBridgeInitTransferEvent(238, SenderNear, m) : m \in EventMessages }
    \cup { FastBridgeUnlockEvent(238, RecipientNear, m) : m \in EventMessages }
    \cup { FastBridgeLpUnlockEvent(n, RecipientNear, CHOOSE m \in EventMessages : TRUE) :
             n \in {0, 238} }
    \cup { FastBridgeDepositEvent(ALICE_NEAR, TOKEN_NEAR, a) : a \in {300, 65537} }
    \cup { FastBridgeWithdrawEvent(s, RecipientNear, TOKEN_NEAR, 300) :
             s \in {None, Some(ALICE_NEAR)} }

\* a line some other code logged before
PlainLine == Line("plain log line", JNull)
InitialLogs == {<<>>, <<PlainLine>>}

EventInit ==
    /\ CodecIdle /\ AddrIdle
    /\ log \in InitialLogs
    /\ log0 = log
    /\ emitted = <<>>

Emit ==
    /\ Len(emitted) < MaxEmits
    /\ \E e \in Events :
        /\ log' = emit(log, e)
        /\ emitted' = Append(emitted, e)
    /\ UNCHANGED <<log0, codecVars, addrVars>>

EventNext == Emit

EventSpec == EventInit /\ [][EventNext]_vars

----------------------------------------------------------------------------
(* Properties of the event envelope *)

TAG_INIT_TRANSFER ==
    <<"f", "a", "s", "t", "_", "b", "r", "i", "d", "g", "e", "_", "i", "n",
      "i", "t", "_", "t", "r", "a", "n", "s", "f", "e", "r", "_", "e", "v",
      "e", "n", "t">>

TAG_UNLOCK ==
    <<"f", "a", "s", "t", "_", "b", "r", "i", "d", "g", "e", "_", "u", "n",
      "l", "o", "c", "k", "_", "e", "v", "e", "n", "t">>

TAG_LP_UNLOCK ==
    <<"f", "a", "s", "t", "_", "b", "r", "i", "d", "g", "e", "_", "l", "p",
      "_", "u", "n", "l", "o", "c", "k", "_", "e", "v", "e", "n", "t">>

TAG_DEPOSIT ==
    <<"f", "a", "s", "t", "_", "b", "r", "i", "d", "g", "e", "_", "d", "e",
      "p", "o", "s", "i", "t", "_", "e", "v", "e", "n", "t">>

TAG_WITHDRAW ==
    <<"f", "a", "s", "t", "_", "b", "r", "i", "d", "g", "e", "_", "w", "i",
      "t", "h", "d", "r", "a", "w", "_", "e", "v", "e", "n", "t">>

ExpectedTag(v) ==
    IF v = VARIANT_INIT_TRANSFER THEN TAG_INIT_TRANSFER
    ELSE IF v = VARIANT_UNLOCK THEN TAG_UNLOCK
    ELSE IF v = VARIANT_LP_UNLOCK THEN TAG_LP_UNLOCK
    ELSE IF v = VARIANT_DEPOSIT THEN TAG_DEPOSIT
    ELSE TAG_WITHDRAW

ExpectedFields(v) ==
    IF v = VARIANT_INIT_TRANSFER THEN {"nonce", "sender_id", "transfer_message"}
    ELSE IF v \in {VARIANT_UNLOCK, VARIANT_LP_UNLOCK}
         THEN {"nonce", "recipient_id", "transfer_message"}
    ELSE IF v = VARIANT_DEPOSIT THEN {"sender_id", "token", "amount"}
    ELSE {"sender_id", "recipient_id", "token", "amount"}

NewLine(i) == log[Len(log0) + i]

\* C8: after n emit calls the log has grown by exactly n lines, the i-th new
\* line is the envelope of the i-th emitted event, and the lines that were in
\* the log before are still there, unchanged and in place.
C8_EmitAppendsOneLine ==
    /\ Len(log) = Len(log0) + Len(emitted)
    /\ \A i \in 1..Len(log0) : log[i] = log0[i]
    /\ \A i \in 1..Len(emitted) :
        /\ Len(log) >= Len(log0) + i
        /\ NewLine(i).head = EVENT_JSON_STR
        /\ Index(NewLine(i).body, "event") = JString(ExpectedTag(emitted[i].variant))
        /\ Index(NewLine(i).body, "data") = JObject(Event_fields(emitted[i]))

C8_Witness ==
    /\ Len(emitted) = 2 /\ log0 # <<>> /\ Len(log) = 3
    /\ emitted[1].variant # emitted[2].variant

\* C9: every line written by emit is the prefix EVENT_JSON: followed by one
\* JSON object with exactly the keys standard, version, event, data, where
\* standard is "nep297", version is "1.0.0", event is the snake_case name of
\* the variant (the five names pairwise distinct) and data is an object holding
\* exactly the variant's fields under their own names.
C9_EnvelopeShape ==
    /\ Cardinality({ExpectedTag(v) : v \in Variants}) = 5
    /\ \A i \in 1..Len(emitted) :
        /\ Len(log) >= Len(log0) + i
        /\ remove_prefix(NewLine(i)) # None
        /\ \A j \in {remove_prefix(NewLine(i))[1]} :
            /\ j.t = "object"
            /\ DOMAIN j.o = {"standard", "version", "event", "data"}
            /\ j.o.standard = JString("nep297")
            /\ j.o.version = JString("1.0.0")
            /\ j.o.event = JString(ExpectedTag(emitted[i].variant))
            /\ j.o.data.t = "object"
            /\ DOMAIN j.o.data.o = ExpectedFields(emitted[i].variant)

C9_Witness ==
    /\ Len(emitted) = 2
    /\ emitted[1].variant = VARIANT_WITHDRAW /\ emitted[1].sender_id = None
    /\ emitted[2].variant = VARIANT_LP_UNLOCK
    /\ NewLine(2).body.o.event = JString(TAG_LP_UNLOCK)

====
